---------------------------- MODULE Spec2Model ----------------------------
(***************************************************************************)
(* Job lifecycle of the Content Maker API (src/app/main.py).               *)
(*                                                                         *)
(* POST /generate inserts a job record into the in-memory job store and    *)
(* schedules process_content_generation as a background task.  The runner  *)
(* is a coroutine on a single event loop: it only yields control at an     *)
(* `await` of an external generator, so one action of this model is the    *)
(* code executed between two consecutive awaits of one runner.  File I/O   *)
(* with open() is synchronous and does not yield.                          *)
(*                                                                         *)
(* Strings are modelled as sequences of tokens, so that the empty string   *)
(* is <<>> and startswith is a real prefix test.  Optional[T] is modelled  *)
(* as a sequence of length at most one: None is <<>>, a value v is <<v>>.  *)
(***************************************************************************)
EXTENDS Integers, Sequences, FiniteSets, TLC

\* Number of jobs POST /generate may create in one run of the model.
MaxJobs == 2

Jobs == 1..MaxJobs

\* A job id that is never allocated (a client polling an id it made up).
UnknownId == MaxJobs + 1

\* Age, in days, of the oldest job a listing is asked about.
MaxAge == 2

\* The days the model's clock may show; the decimal timestamp of the first
\* has one significant digit, that of the others two.
Instants == 9..(9 + MaxAge)

VARIABLES
    active_jobs,   \* the job store: job id -> job record (a dict)
    tasks,         \* job id -> the ContentRequest handed to the background task
    pc,            \* job id -> where the runner of that job is suspended
    dirs,          \* output directory of a job id -> the file names in it
    log,           \* job id -> the generator calls, returns and raises so far
    writes,        \* job id -> the writes its runner made to its record, in order
    response,      \* the most recent HTTP response
    clock,         \* the day datetime.now() shows
    static_videos  \* the job ids with a public copy static/videos/{job_id}.mp4

vars == <<active_jobs, tasks, pc, dirs, log, writes, response, clock, static_videos>>

-----------------------------------------------------------------------------
(* Python values *)

None == <<>>

Some(v) == <<v>>

\* Falsy with a fault: `x is None` in place of `not x`.
FalsyNoneOnly(opt) == opt = None

\* Python truthiness of an Optional[str] / Optional[List]: `not x`.
Falsy(opt) == opt = None \/ opt[1] = <<>>

\* str.startswith(prefix), on token sequences.
StartsWith(s, prefix) ==
    /\ Len(s) >= Len(prefix)
    /\ SubSeq(s, 1, Len(prefix)) = prefix

ErrorPrefix == <<"Error:">>

\* An exception object: its class, the positional args it was built with, and
\* (for an HTTPException) the status_code and detail keyword arguments.
Exc(type, args) == [type |-> type, args |-> args, status_code |-> 0, detail |-> <<>>]

\* fastapi.HTTPException(status_code=..., detail=...): keyword arguments only.
HTTPExc(code, detail) ==
    [type |-> "HTTPException", args |-> <<>>, status_code |-> code, detail |-> detail]

\* str(e).  BaseException.__str__ is "" with no args and str(args[0]) with one;
\* HTTPException.__str__ (Starlette) is f"{status_code}: {detail}"; the only
\* HTTPException the runner raises has status_code 400.
Str(e) ==
    IF e.type = "HTTPException" THEN <<"400:">> \o e.detail
    ELSE IF e.args = <<>> THEN <<>>
    ELSE e.args[1]

\* The classes `except Exception` catches: every class used here derives from it.
ExceptionClasses ==
    {"Exception", "ValueError", "HTTPException", "OSError"}

\* dict.update / d[k] = v: the entries of `upd` replace or extend those of `d`.
Update(d, upd) == upd @@ d

\* A sequence of such writes, applied to `d` one after the other.
RECURSIVE ApplyWrites(_, _)
ApplyWrites(d, ws) ==
    IF ws = <<>> THEN d ELSE ApplyWrites(Update(d, Head(ws)), Tail(ws))

\* datetime.isoformat(): a zero-padded decimal string of fixed width.
isoformat(t) == << t \div 10, t % 10 >>

\* datetime.fromisoformat()
fromisoformat(s) == 10 * s[1] + s[2]

\* a < b of two str values: lexicographic.
RECURSIVE StrLess(_, _)
StrLess(a, b) ==
    IF a = <<>> THEN b # <<>>
    ELSE IF b = <<>> THEN FALSE
    ELSE IF a[1] # b[1] THEN a[1] < b[1]
    ELSE StrLess(Tail(a), Tail(b))

\* datetime.now().isoformat()
Now == isoformat(clock)

-----------------------------------------------------------------------------
(* Requests.  Only the fields the runner branches on are kept; the voices, *)
(* styles, lengths and per-type option bundles are passed through to the   *)
(* generators and do not change what the runner does.                      *)

PodcastOptions(type, custom_text, dialogues) ==
    [podcast_type |-> type, custom_text |-> custom_text, dialogues |-> dialogues]

ContentRequest(content_type, topic, podcast_options) ==
    [content_type |-> content_type, topic |-> topic,
     video_prompt |-> None, podcast_options |-> podcast_options]

Topic == <<"topic">>

DialogueEntry == [speaker |-> 1, text |-> <<"hello">>]

\* The requests POST /generate is given: every content type, every podcast
\* sub-type, each with its mandatory sub-field absent, empty and present.
Requests ==
    { ContentRequest(t, Topic, None) :
        t \in {"story", "educational", "article", "tweet_thread", "book_chapter"} }
    \cup { ContentRequest("podcast", Topic, None) }
    \cup { ContentRequest("podcast", tp, Some(PodcastOptions("dialogue", None, d))) :
             tp \in {<<>>, Topic},
             d \in {None, Some(<<>>), Some(<<DialogueEntry>>)} }
    \cup { ContentRequest("podcast", Topic, Some(PodcastOptions("custom_text", c, None))) :
             c \in {None, Some(<<>>), Some(<<"hello", "world">>)} }
    \cup { ContentRequest("podcast", Topic, Some(PodcastOptions(t, None, None))) :
             t \in {"topic_based", "free_generation"} }

NoRequest == ContentRequest("", <<>>, None)

-----------------------------------------------------------------------------
(* The external generators of app/generators, by their contracts.          *)

NoExc == Exc("", <<>>)

Ret(v) == [kind |-> "return", value |-> v, exc |-> NoExc]

Raised(e) == [kind |-> "raise", value |-> None, exc |-> e]

\* What a generator may raise: an error with a message, and one without.
GenErrors == { Exc("Exception", <<>>), Exc("Exception", << <<"boom">> >>) }

\* A text generator returns a script, or an "Error:"-prefixed string.
TextResults == { <<"some", "text">>, <<"Error:", "quota">> }

\* generate_tweet_thread returns a list of strings.
TweetResults == { << <<"tweet">> >>, << <<"Error:", "quota">> >>, <<>> }

\* generate_dialogue_content returns a list of (speaker, text) pairs.
DialogueResults == { << <<1, <<"hi">> >>, <<2, <<"hey">> >> >> }

TextGenerators ==
    {"generate_story", "generate_educational_content", "generate_podcast_from_topic",
     "generate_free_podcast", "generate_article", "generate_book_chapter"}

\* The values a call of generator `gen` may return.
Results(gen) ==
    IF gen \in TextGenerators THEN TextResults
    ELSE IF gen = "generate_tweet_thread" THEN TweetResults
    ELSE IF gen = "generate_dialogue_content" THEN DialogueResults
    ELSE IF gen = "generate_images" THEN { <<"image_0.png">> }
    ELSE { None }

\* Every way a call of generator `gen` may end.
Outcomes(gen) == { Ret(v) : v \in Results(gen) } \cup { Raised(e) : e \in GenErrors }

\* The files a generator has written into the job's directory when it returns
\* without error; `output_path` is the file name it was told to write.
GeneratorWrites(gen, output_path) ==
    IF gen = "generate_images" THEN {"image_0.png"}
    ELSE IF gen \in {"generate_voice_over", "generate_dialogue",
                     "generate_background_music", "create_video_async"}
         THEN {output_path}
    ELSE {}

\* open(path, 'w') either succeeds or raises OSError.
WriteOutcomes == { Ret(None), Raised(Exc("OSError", << <<"No", "space">> >>)) }

-----------------------------------------------------------------------------
(* The log of a runner: what it called and how each call ended.            *)

\* Whether the value a generator returned carries the "Error:" sentinel.
Sentinel(gen, v) ==
    IF gen \in TextGenerators THEN StartsWith(v, ErrorPrefix)
    ELSE IF gen = "generate_tweet_thread" THEN v # <<>> /\ StartsWith(v[1], ErrorPrefix)
    ELSE FALSE

CallEv(gen) == [ev |-> "call", gen |-> gen, sentinel |-> FALSE]

ReturnEv(gen, v) == [ev |-> "return", gen |-> gen, sentinel |-> Sentinel(gen, v)]

RaiseEv(e) == [ev |-> "raise", gen |-> e.type, sentinel |-> FALSE]

-----------------------------------------------------------------------------
(* process_content_generation, one operator per stretch of code between    *)
(* two awaits.  A runner's state `st` is its job record, its position, its *)
(* output directory, its log and the writes it made to the record.         *)

\* Catches with a fault: `except ValueError as e`.
CatchesValueErrorOnly(e) == e.type = "ValueError"

\* except Exception as e:
Catches(e) == e.type \in ExceptionClasses

\* HandleException with a fault: `except Exception: pass`.
HandleExceptionPass(rec, e) == rec

\* The body of the except clause: three writes, no await between them.
ExceptWrites(e) ==
    << [status |-> "failed"], [error |-> Str(e)], [failed_at |-> Now] >>

HandleException(rec, e) == ApplyWrites(rec, ExceptWrites(e))

\* An exception raised inside the try block.
Except(st, e) ==
    IF Catches(e)
    THEN [st EXCEPT !.rec = HandleException(@, e), !.pc = "done",
                    !.log = Append(@, RaiseEv(e)),
                    !.writes = @ \o ExceptWrites(e)]
    ELSE [st EXCEPT !.pc = "escaped", !.log = Append(@, RaiseEv(e))]

\* MarkCompleted with a fault: the completed_at write is left out.
MarkCompletedNoTimestamp(rec) == Update(rec, [status |-> "completed"])

\* active_jobs[job_id]["status"] = "completed"; ["completed_at"] = now
CompletionWrites == << [status |-> "completed"], [completed_at |-> Now] >>

MarkCompleted(rec) == ApplyWrites(rec, CompletionWrites)

\* The end of the try block.
Finish(st) ==
    [st EXCEPT !.rec = MarkCompleted(@), !.pc = "done",
               !.writes = @ \o CompletionWrites]

\* active_jobs[job_id]["output_filename"] = ...; ["media_type"] = ...
OutputWrites(output_filename, media_type) ==
    << [output_filename |-> output_filename], [media_type |-> media_type] >>

SetOutput(rec, output_filename, media_type) ==
    ApplyWrites(rec, OutputWrites(output_filename, media_type))

RecordOutput(st, output_filename, media_type) ==
    [st EXCEPT !.rec = SetOutput(@, output_filename, media_type),
               !.writes = @ \o OutputWrites(output_filename, media_type)]

\* active_jobs[job_id].update({...}) of the two podcast branches: one write.
PodcastUpdateWrites(output_filename) ==
    << [status |-> "completed", output_filename |-> output_filename,
        media_type |-> "audio/mpeg"] >>

PodcastUpdate(rec, output_filename) ==
    ApplyWrites(rec, PodcastUpdateWrites(output_filename))

RecordPodcast(st, output_filename) ==
    [st EXCEPT !.rec = PodcastUpdate(@, output_filename),
               !.writes = @ \o PodcastUpdateWrites(output_filename)]

\* `await gen(...)`: the runner is suspended at `site` until the call ends.
Await(st, site, gen) == [st EXCEPT !.pc = site, !.log = Append(@, CallEv(gen))]

\* The awaited call returned `v`, having written its output file.
Resumed(st, gen, v, output_path) ==
    [st EXCEPT !.log = Append(@, ReturnEv(gen, v)),
               !.dir = @ \cup GeneratorWrites(gen, output_path)]

\* WriteFile with a fault: open(name, 'w'), the file lands outside output_dir.
WriteFileElsewhere(st, name) == st

\* with open(os.path.join(output_dir, name), 'w') as f: f.write(...)
WriteFile(st, name) == [st EXCEPT !.dir = @ \cup {name}]

\* The podcast branch up to its first await.
StartPodcast(st, request) ==
    IF ~ (request.podcast_options # None)
    THEN Except(st, Exc("ValueError", << <<"Podcast", "options", "not", "provided">> >>))
    ELSE LET podcast_options == request.podcast_options[1] IN
         IF podcast_options.podcast_type = "dialogue"
         THEN IF Falsy(podcast_options.dialogues)
              THEN IF request.topic = <<>>
                   THEN Except(st, HTTPExc(400, <<"Topic", "is", "required">>))
                   ELSE Await(st, "generate_dialogue_content", "generate_dialogue_content")
              ELSE Await(st, "generate_dialogue", "generate_dialogue")
         ELSE IF podcast_options.podcast_type = "custom_text"
              THEN Await(st, "podcast_voice_over", "generate_voice_over")
         ELSE IF podcast_options.podcast_type = "topic_based"
              THEN Await(st, "generate_podcast_from_topic", "generate_podcast_from_topic")
         ELSE Await(st, "generate_free_podcast", "generate_free_podcast")

\* The runner from its start to its first await.
Start(st, request) ==
    IF request.content_type = "story"
    THEN Await(st, "generate_story", "generate_story")
    ELSE IF request.content_type = "educational"
    THEN Await(st, "generate_educational_content", "generate_educational_content")
    ELSE IF request.content_type = "podcast"
    THEN StartPodcast(st, request)
    ELSE IF request.content_type = "article"
    THEN Await(st, "generate_article", "generate_article")
    ELSE IF request.content_type = "tweet_thread"
    THEN Await(st, "generate_tweet_thread", "generate_tweet_thread")
    ELSE IF request.content_type = "book_chapter"
    THEN Await(st, "generate_book_chapter", "generate_book_chapter")
    ELSE Except(st, Exc("ValueError", << <<"Unsupported", "content", "type">> >>))

\* AfterScript with a fault: the locals output_filename and media_type, set
\* for the script, are stored in the record as soon as the script is saved.
AfterScriptRecordsOutput(st, gen, o, w) ==
    IF o.kind = "raise" THEN Except(st, o.exc)
    ELSE LET s1 == Resumed(st, gen, o.value, "") IN
         IF w.kind = "raise" THEN Except(s1, w.exc)
         ELSE Await(RecordOutput(WriteFile(s1, "content.txt"), "content.txt", "text/plain"),
                    "generate_images", "generate_images")

\* generate_story / generate_educational_content returned: the script is
\* saved as content.txt, read back, and handed to the image generator.
AfterScript(st, gen, o, w) ==
    IF o.kind = "raise" THEN Except(st, o.exc)
    ELSE LET s1 == Resumed(st, gen, o.value, "") IN
         IF w.kind = "raise" THEN Except(s1, w.exc)
         ELSE Await(WriteFile(s1, "content.txt"), "generate_images", "generate_images")

AfterImages(st, o) ==
    IF o.kind = "raise" THEN Except(st, o.exc)
    ELSE Await(Resumed(st, "generate_images", o.value, ""),
               "media_voice_over", "generate_voice_over")

AfterMediaVoiceOver(st, o) ==
    IF o.kind = "raise" THEN Except(st, o.exc)
    ELSE Await(Resumed(st, "generate_voice_over", o.value, "voice_over.mp3"),
               "generate_background_music", "generate_background_music")

AfterBackgroundMusic(st, o) ==
    IF o.kind = "raise" THEN Except(st, o.exc)
    ELSE Await(Resumed(st, "generate_background_music", o.value, "background_music.wav"),
               "create_video_async", "create_video_async")

\* AfterVideo with a fault: the record gets the locals output_filename and
\* media_type, which still name the script.
AfterVideoScriptOutput(st, o) ==
    IF o.kind = "raise" THEN Except(st, o.exc)
    ELSE LET s1 == Resumed(st, "create_video_async", o.value, "content_video.mp4") IN
         Finish(RecordOutput(s1, "content.txt", "text/plain"))

\* create_video_async returned: the record gets the video as its output and
\* the job is marked completed.
AfterVideo(st, o) ==
    IF o.kind = "raise" THEN Except(st, o.exc)
    ELSE LET s1 == Resumed(st, "create_video_async", o.value, "content_video.mp4") IN
         Finish(RecordOutput(s1, "content_video.mp4", "video/mp4"))

AfterDialogueContent(st, o) ==
    IF o.kind = "raise" THEN Except(st, o.exc)
    ELSE Await(Resumed(st, "generate_dialogue_content", o.value, ""),
               "generate_dialogue", "generate_dialogue")

\* generate_dialogue returned: update the record, fall through to the end.
AfterDialogue(st, o) ==
    IF o.kind = "raise" THEN Except(st, o.exc)
    ELSE LET output_filename == "podcast_audio.mp3"
             s1 == Resumed(st, "generate_dialogue", o.value, output_filename) IN
         Finish(RecordPodcast(s1, output_filename))

\* AfterPodcastText with a fault: the record is updated before the voice
\* generator is awaited instead of after.
AfterPodcastTextEarlyUpdate(st, gen, o) ==
    IF o.kind = "raise" THEN Except(st, o.exc)
    ELSE LET s1 == Resumed(st, gen, o.value, "") IN
         Await(RecordPodcast(s1, "podcast_audio.mp3"),
               "podcast_voice_over", "generate_voice_over")

\* generate_podcast_from_topic / generate_free_podcast returned `text`, which
\* goes to the voice generator as it is.
AfterPodcastText(st, gen, o) ==
    IF o.kind = "raise" THEN Except(st, o.exc)
    ELSE Await(Resumed(st, gen, o.value, ""), "podcast_voice_over", "generate_voice_over")

\* The podcast's generate_voice_over returned.
AfterPodcastVoiceOver(st, o) ==
    IF o.kind = "raise" THEN Except(st, o.exc)
    ELSE LET output_filename == "podcast_audio.mp3"
             s1 == Resumed(st, "generate_voice_over", o.value, output_filename) IN
         Finish(RecordPodcast(s1, output_filename))

\* generate_article / generate_book_chapter returned `generated_text`.
AfterLongText(st, gen, o, w, output_filename) ==
    IF o.kind = "raise" THEN Except(st, o.exc)
    ELSE LET generated_text == o.value
             s1 == Resumed(st, gen, generated_text, "") IN
         IF StartsWith(generated_text, ErrorPrefix)
         THEN Except(s1, Exc("ValueError", << <<"generation", "failed:">> \o generated_text >>))
         ELSE IF w.kind = "raise" THEN Except(s1, w.exc)
         ELSE LET s2 == WriteFile(s1, output_filename) IN
              Finish(RecordOutput(s2, output_filename, "text/plain"))

AfterArticle(st, o, w) == AfterLongText(st, "generate_article", o, w, "article.txt")

AfterBookChapter(st, o, w) ==
    AfterLongText(st, "generate_book_chapter", o, w, "book_chapter.txt")

\* generate_tweet_thread returned `tweet_list`.
AfterTweetThread(st, o, w) ==
    IF o.kind = "raise" THEN Except(st, o.exc)
    ELSE LET tweet_list == o.value
             s1 == Resumed(st, "generate_tweet_thread", tweet_list, "") IN
         IF tweet_list # <<>> /\ StartsWith(tweet_list[1], ErrorPrefix)
         THEN Except(s1, Exc("ValueError",
                             << <<"Tweet", "thread", "generation", "failed:">>
                                \o tweet_list[1] >>))
         ELSE IF w.kind = "raise" THEN Except(s1, w.exc)
         ELSE LET s2 == WriteFile(s1, "tweet_thread.json") IN
              Finish(RecordOutput(s2, "tweet_thread.json", "application/json"))

-----------------------------------------------------------------------------
(* The HTTP handlers.                                                      *)

\* The record POST /generate stores.
NewRecord(job_id, request) ==
    [status |-> "processing", created_at |-> Now, output_dir |-> job_id,
     content_type |-> request.content_type, video_prompt |-> request.video_prompt]

\* Schedule with a fault: `await process_content_generation(...)` in the handler.
ScheduleInline(st, request) == Start([st EXCEPT !.pc = "scheduled"], request)

\* background_tasks.add_task(process_content_generation, ...): the runner is
\* queued and starts after the response has been sent.
Schedule(st, request) == [st EXCEPT !.pc = "scheduled"]

\* str(uuid.uuid4()): an id no job has.
NewJobId == Cardinality(DOMAIN active_jobs) + 1

Response(op, job_id, code, body) ==
    [op |-> op, job_id |-> job_id, code |-> code, body |-> body]

\* GET /status/{job_id}
get_job_status(job_id) ==
    IF job_id \notin DOMAIN active_jobs
    THEN Response("status", job_id, 404, [detail |-> "Job not found"])
    ELSE Response("status", job_id, 200, active_jobs[job_id])

\* dict.get(key): None when the key is absent.
Get(rec, key) == IF key \in DOMAIN rec THEN Some(rec[key]) ELSE None

\* `not x` of an Optional file name or media type: None or "".
NoStr(opt) == opt = None \/ opt[1] = ""

\* Exists with a fault: the os.path.exists test is left out.
ExistsUnchecked(job_info, name) == TRUE

\* os.path.exists(os.path.join(job_info["output_dir"], name))
Exists(job_info, name) ==
    /\ job_info.output_dir \in DOMAIN dirs
    /\ name \in dirs[job_info.output_dir]

\* os.path.splitext(name)[1] of the file names the runner uses.
SplitExt(name) ==
    CASE name = "content_video.mp4" -> ".mp4"
      [] name = "podcast_audio.mp3" -> ".mp3"
      [] name = "tweet_thread.json" -> ".json"
      [] name \in {"article.txt", "book_chapter.txt", "content.txt"} -> ".txt"
      [] OTHER -> ""

HTTPError(op, job_id, code, detail) == Response(op, job_id, code, [detail |-> detail])

\* GET /download/{job_id}
download_content(job_id) ==
    IF job_id \notin DOMAIN active_jobs
    THEN HTTPError("download", job_id, 404, "Job not found")
    ELSE LET job_info == active_jobs[job_id]
             content_type == job_info.content_type
             stored == ~ NoStr(Get(job_info, "output_filename"))
                       /\ ~ NoStr(Get(job_info, "media_type"))
             fallback == content_type \in {"podcast", "story", "educational"}
             output_filename ==
                 IF stored THEN job_info.output_filename
                 ELSE IF content_type = "podcast" THEN "podcast_audio.mp3"
                 ELSE "content_video.mp4"
             media_type ==
                 IF stored THEN job_info.media_type
                 ELSE IF content_type = "podcast" THEN "audio/mpeg"
                 ELSE "video/mp4"
         IN IF job_info.status # "completed"
            THEN HTTPError("download", job_id, 400, "Content generation not completed")
            ELSE IF ~ stored /\ ~ fallback
            THEN HTTPError("download", job_id, 500, "Job output information is incomplete.")
            ELSE IF ~ Exists(job_info, output_filename)
            THEN HTTPError("download", job_id, 404, "not found in job output.")
            ELSE Response("download", job_id, 200,
                          [path |-> <<job_info.output_dir, output_filename>>,
                           media_type |-> media_type,
                           filename |-> <<content_type, job_id, SplitExt(output_filename)>>])

\* GET /video/{job_id}/stream
stream_video(job_id) ==
    IF job_id \notin DOMAIN active_jobs
    THEN HTTPError("stream", job_id, 404, "Video not found")
    ELSE LET job_info == active_jobs[job_id] IN
         IF job_info.status # "completed"
         THEN HTTPError("stream", job_id, 400, "Video generation not completed")
         ELSE IF ~ Exists(job_info, "content_video.mp4")
         THEN HTTPError("stream", job_id, 404, "Video file not found")
         ELSE Response("stream", job_id, 200,
                       [path |-> <<job_info.output_dir, "content_video.mp4">>,
                        media_type |-> "video/mp4"])

\* GET /video/{job_id}/embed
get_video_embed(job_id) ==
    IF job_id \notin DOMAIN active_jobs
    THEN HTTPError("embed", job_id, 404, "Video not found")
    ELSE LET job_info == active_jobs[job_id] IN
         IF job_info.status # "completed"
         THEN HTTPError("embed", job_id, 400, "Video generation not completed")
         ELSE Response("embed", job_id, 200,
                       [title |-> job_info.content_type,
                        video_url |-> <<"/static/videos", job_id>>])

\* GET /video/{job_id}/info
get_video_info(job_id) ==
    IF job_id \notin DOMAIN active_jobs
    THEN HTTPError("info", job_id, 404, "Video not found")
    ELSE LET job_info == active_jobs[job_id] IN
         IF job_info.status # "completed"
         THEN HTTPError("info", job_id, 400, "Video generation not completed")
         ELSE IF ~ Exists(job_info, "content_video.mp4")
         THEN HTTPError("info", job_id, 404, "Video file not found")
         ELSE Response("info", job_id, 200,
                       [job_id |-> job_id,
                        content_type |-> job_info.content_type,
                        created_at |-> job_info.created_at,
                        completed_at |-> job_info.completed_at,
                        static_url |-> <<"/static/videos", job_id>>])

\* GET /podcast/{job_id}/info
get_podcast_info(job_id) ==
    IF job_id \notin DOMAIN active_jobs
    THEN HTTPError("podcast_info", job_id, 404, "Job not found")
    ELSE LET job_info == active_jobs[job_id] IN
         IF job_info.content_type # "podcast"
         THEN HTTPError("podcast_info", job_id, 400, "Job is not a podcast type.")
         ELSE IF job_info.status # "completed"
         THEN HTTPError("podcast_info", job_id, 400, "Podcast generation not completed.")
         ELSE Response("podcast_info", job_id, 200,
                       [job_id |-> job_id,
                        content_type |-> job_info.content_type,
                        created_at |-> job_info.created_at,
                        completed_at |-> job_info.completed_at,
                        audio_url |-> Get(job_info, "audio_url")])

\* VideoInfo(job_id=..., content_type=..., created_at=..., video_url=...)
VideoInfo(job_id) ==
    [job_id |-> job_id,
     content_type |-> active_jobs[job_id].content_type,
     created_at |-> active_jobs[job_id].created_at,
     video_url |-> <<"/static/videos", job_id>>]

\* cutoff_date = datetime.now() - timedelta(days=days), and the negation of
\* `created_at < cutoff_date`.
InWindow(created_at, days) == ~ (fromisoformat(created_at) < clock - days)

\* The `continue` tests of the loop of list_videos, negated.
Listed(job_id, content_type, days) ==
    LET job_info == active_jobs[job_id] IN
    /\ ~ (job_info.status # "completed")
    /\ ~ (~ NoStr(content_type) /\ job_info.content_type # content_type[1])
    /\ InWindow(job_info.created_at, days)
    /\ Exists(job_info, "content_video.mp4")

\* active_jobs.items(): the job ids in insertion order.
Items == [k \in 1..Cardinality(DOMAIN active_jobs) |-> k]

\* Insert with a fault: the sort without reverse=True.
RECURSIVE InsertOldestFirst(_, _)
InsertOldestFirst(v, s) ==
    IF s = <<>> THEN <<v>>
    ELSE IF StrLess(v.created_at, Head(s).created_at) THEN <<v>> \o s
    ELSE <<Head(s)>> \o InsertOldestFirst(v, Tail(s))

\* One insertion of sorted(..., key=created_at, reverse=True): v goes behind
\* the entries that are as new as it, which keeps the sort stable.
RECURSIVE Insert(_, _)
Insert(v, s) ==
    IF s = <<>> THEN <<v>>
    ELSE IF StrLess(Head(s).created_at, v.created_at) THEN <<v>> \o s
    ELSE <<Head(s)>> \o Insert(v, Tail(s))

\* sorted(videos, key=lambda x: x.created_at, reverse=True)
RECURSIVE SortedByCreatedAt(_)
SortedByCreatedAt(s) ==
    IF s = <<>> THEN <<>>
    ELSE Insert(s[Len(s)], SortedByCreatedAt(SubSeq(s, 1, Len(s) - 1)))

\* s[:limit]
Slice(s, limit) == SubSeq(s, 1, IF limit < Len(s) THEN limit ELSE Len(s))

\* Publish with a fault: shutil.move instead of shutil.copy2.
PublishByMove(fs, job_id) ==
    IF job_id \in fs.static_videos THEN fs
    ELSE [static_videos |-> fs.static_videos \cup {job_id},
          dirs |-> [fs.dirs EXCEPT ![job_id] = @ \ {"content_video.mp4"}]]

\* if not os.path.exists(public_path): shutil.copy2(video_path, public_path)
Publish(fs, job_id) ==
    IF job_id \in fs.static_videos THEN fs
    ELSE [fs EXCEPT !.static_videos = @ \cup {job_id}]

\* The file system after the loop has gone through the listed job ids.
RECURSIVE PublishAll(_, _)
PublishAll(fs, ids) ==
    IF ids = <<>> THEN fs ELSE PublishAll(Publish(fs, Head(ids)), Tail(ids))

\* GET /videos: the response and the file system it leaves.
list_videos(content_type, days, limit) ==
    LET ids == SelectSeq(Items, LAMBDA k : Listed(k, content_type, days))
        videos == [i \in 1..Len(ids) |-> VideoInfo(ids[i])]
    IN [response |-> Response("videos", UnknownId, 200,
                              Slice(SortedByCreatedAt(videos), limit)),
        fs |-> PublishAll([static_videos |-> static_videos, dirs |-> dirs], ids)]

-----------------------------------------------------------------------------
(* The state machine.                                                      *)

JobState(j) ==
    [rec |-> active_jobs[j], pc |-> pc[j], dir |-> dirs[j], log |-> log[j],
     writes |-> writes[j]]

\* Commit with a fault: the runner writes its record through a dict that
\* every entry of the job store shares.
CommitShared(j, st) ==
    /\ active_jobs' = [k \in DOMAIN active_jobs |-> st.rec]
    /\ pc' = [pc EXCEPT ![j] = st.pc]
    /\ dirs' = [dirs EXCEPT ![j] = st.dir]
    /\ log' = [log EXCEPT ![j] = st.log]
    /\ writes' = [writes EXCEPT ![j] = st.writes]

\* The runner of job j moves to state st.
Commit(j, st) ==
    /\ active_jobs' = [active_jobs EXCEPT ![j] = st.rec]
    /\ pc' = [pc EXCEPT ![j] = st.pc]
    /\ dirs' = [dirs EXCEPT ![j] = st.dir]
    /\ log' = [log EXCEPT ![j] = st.log]
    /\ writes' = [writes EXCEPT ![j] = st.writes]

Init ==
    /\ active_jobs = <<>>
    /\ tasks = [j \in Jobs |-> NoRequest]
    /\ pc = [j \in Jobs |-> "none"]
    /\ dirs = <<>>
    /\ log = [j \in Jobs |-> <<>>]
    /\ writes = [j \in Jobs |-> <<>>]
    /\ response = Response("none", UnknownId, 0, <<>>)
    /\ clock = 9 + MaxAge
    /\ static_videos = {}

\* POST /generate
GenerateContent(request) ==
    /\ Cardinality(DOMAIN active_jobs) < MaxJobs
    /\ LET job_id == NewJobId
           st == Schedule([rec |-> NewRecord(job_id, request), pc |-> "none",
                           dir |-> IF job_id \in DOMAIN dirs THEN dirs[job_id] ELSE {},
                           log |-> <<>>, writes |-> <<>>], request)
       IN /\ active_jobs' = (job_id :> st.rec) @@ active_jobs
          /\ dirs' = (job_id :> st.dir) @@ dirs
          /\ pc' = [pc EXCEPT ![job_id] = st.pc]
          /\ log' = [log EXCEPT ![job_id] = st.log]
          /\ writes' = [writes EXCEPT ![job_id] = st.writes]
          /\ tasks' = [tasks EXCEPT ![job_id] = request]
          /\ response' = Response("generate", job_id, 200,
                                  [job_id |-> job_id, status |-> "processing"])
          /\ UNCHANGED <<clock, static_videos>>

\* GET /status/{job_id}
GetStatus(job_id) ==
    /\ response' = get_job_status(job_id)
    /\ UNCHANGED <<active_jobs, tasks, pc, dirs, log, writes, clock, static_videos>>

\* The event loop starts the background task of job j.
RunnerStart(j) ==
    /\ pc[j] = "scheduled"
    /\ Commit(j, Start(JobState(j), tasks[j]))
    /\ UNCHANGED <<tasks, response, clock, static_videos>>

ScriptReturns(j) ==
    /\ pc[j] \in {"generate_story", "generate_educational_content"}
    /\ \E o \in Outcomes(pc[j]), w \in WriteOutcomes :
          Commit(j, AfterScript(JobState(j), pc[j], o, w))
    /\ UNCHANGED <<tasks, response, clock, static_videos>>

ImagesReturn(j) ==
    /\ pc[j] = "generate_images"
    /\ \E o \in Outcomes("generate_images") : Commit(j, AfterImages(JobState(j), o))
    /\ UNCHANGED <<tasks, response, clock, static_videos>>

MediaVoiceOverReturns(j) ==
    /\ pc[j] = "media_voice_over"
    /\ \E o \in Outcomes("generate_voice_over") :
          Commit(j, AfterMediaVoiceOver(JobState(j), o))
    /\ UNCHANGED <<tasks, response, clock, static_videos>>

BackgroundMusicReturns(j) ==
    /\ pc[j] = "generate_background_music"
    /\ \E o \in Outcomes("generate_background_music") :
          Commit(j, AfterBackgroundMusic(JobState(j), o))
    /\ UNCHANGED <<tasks, response, clock, static_videos>>

VideoReturns(j) ==
    /\ pc[j] = "create_video_async"
    /\ \E o \in Outcomes("create_video_async") : Commit(j, AfterVideo(JobState(j), o))
    /\ UNCHANGED <<tasks, response, clock, static_videos>>

DialogueContentReturns(j) ==
    /\ pc[j] = "generate_dialogue_content"
    /\ \E o \in Outcomes("generate_dialogue_content") :
          Commit(j, AfterDialogueContent(JobState(j), o))
    /\ UNCHANGED <<tasks, response, clock, static_videos>>

DialogueReturns(j) ==
    /\ pc[j] = "generate_dialogue"
    /\ \E o \in Outcomes("generate_dialogue") : Commit(j, AfterDialogue(JobState(j), o))
    /\ UNCHANGED <<tasks, response, clock, static_videos>>

PodcastTextReturns(j) ==
    /\ pc[j] \in {"generate_podcast_from_topic", "generate_free_podcast"}
    /\ \E o \in Outcomes(pc[j]) : Commit(j, AfterPodcastText(JobState(j), pc[j], o))
    /\ UNCHANGED <<tasks, response, clock, static_videos>>

PodcastVoiceOverReturns(j) ==
    /\ pc[j] = "podcast_voice_over"
    /\ \E o \in Outcomes("generate_voice_over") :
          Commit(j, AfterPodcastVoiceOver(JobState(j), o))
    /\ UNCHANGED <<tasks, response, clock, static_videos>>

ArticleReturns(j) ==
    /\ pc[j] = "generate_article"
    /\ \E o \in Outcomes("generate_article"), w \in WriteOutcomes :
          Commit(j, AfterArticle(JobState(j), o, w))
    /\ UNCHANGED <<tasks, response, clock, static_videos>>

TweetThreadReturns(j) ==
    /\ pc[j] = "generate_tweet_thread"
    /\ \E o \in Outcomes("generate_tweet_thread"), w \in WriteOutcomes :
          Commit(j, AfterTweetThread(JobState(j), o, w))
    /\ UNCHANGED <<tasks, response, clock, static_videos>>

BookChapterReturns(j) ==
    /\ pc[j] = "generate_book_chapter"
    /\ \E o \in Outcomes("generate_book_chapter"), w \in WriteOutcomes :
          Commit(j, AfterBookChapter(JobState(j), o, w))
    /\ UNCHANGED <<tasks, response, clock, static_videos>>

Next ==
    \/ \E request \in Requests : GenerateContent(request)
    \/ \E job_id \in DOMAIN active_jobs \cup {UnknownId} : GetStatus(job_id)
    \/ \E j \in Jobs : RunnerStart(j)
    \/ \E j \in Jobs : ScriptReturns(j)
    \/ \E j \in Jobs : ImagesReturn(j)
    \/ \E j \in Jobs : MediaVoiceOverReturns(j)
    \/ \E j \in Jobs : BackgroundMusicReturns(j)
    \/ \E j \in Jobs : VideoReturns(j)
    \/ \E j \in Jobs : DialogueContentReturns(j)
    \/ \E j \in Jobs : DialogueReturns(j)
    \/ \E j \in Jobs : PodcastTextReturns(j)
    \/ \E j \in Jobs : PodcastVoiceOverReturns(j)
    \/ \E j \in Jobs : ArticleReturns(j)
    \/ \E j \in Jobs : TweetThreadReturns(j)
    \/ \E j \in Jobs : BookChapterReturns(j)

Spec == Init /\ [][Next]_vars

\* Any step of the runner of job j.
RunnerStep(j) ==
    \/ RunnerStart(j)
    \/ ScriptReturns(j)
    \/ ImagesReturn(j)
    \/ MediaVoiceOverReturns(j)
    \/ BackgroundMusicReturns(j)
    \/ VideoReturns(j)
    \/ DialogueContentReturns(j)
    \/ DialogueReturns(j)
    \/ PodcastTextReturns(j)
    \/ PodcastVoiceOverReturns(j)
    \/ ArticleReturns(j)
    \/ TweetThreadReturns(j)
    \/ BookChapterReturns(j)

\* The event loop runs every background task it was given, and every awaited
\* generator call ends: a runner that can take a step eventually takes it.
FairSpec == Spec /\ \A j \in Jobs : WF_vars(RunnerStep(j))

\* GET /download/{job_id}
Download(job_id) ==
    /\ response' = download_content(job_id)
    /\ UNCHANGED <<active_jobs, tasks, pc, dirs, log, writes, clock, static_videos>>

\* GET /video/{job_id}/stream
StreamVideo(job_id) ==
    /\ response' = stream_video(job_id)
    /\ UNCHANGED <<active_jobs, tasks, pc, dirs, log, writes, clock, static_videos>>

\* GET /video/{job_id}/embed
VideoEmbed(job_id) ==
    /\ response' = get_video_embed(job_id)
    /\ UNCHANGED <<active_jobs, tasks, pc, dirs, log, writes, clock, static_videos>>

\* GET /video/{job_id}/info
VideoInfoRequest(job_id) ==
    /\ response' = get_video_info(job_id)
    /\ UNCHANGED <<active_jobs, tasks, pc, dirs, log, writes, clock, static_videos>>

\* GET /podcast/{job_id}/info
PodcastInfo(job_id) ==
    /\ response' = get_podcast_info(job_id)
    /\ UNCHANGED <<active_jobs, tasks, pc, dirs, log, writes, clock, static_videos>>

\* GET /videos?content_type=...&days=...&limit=...
ListVideos(content_type, days, limit) ==
    LET r == list_videos(content_type, days, limit) IN
    /\ response' = r.response
    /\ static_videos' = r.fs.static_videos
    /\ dirs' = r.fs.dirs
    /\ UNCHANGED <<active_jobs, tasks, pc, log, writes, clock>>

\* The ids a client asks about: every job's, and one no job has.
Ids == DOMAIN active_jobs \cup {UnknownId}

\* The content_type query parameter: absent, empty, a video type, another type.
Filters == {None, Some(""), Some("story"), Some("podcast")}

\* days: int = Query(7, ge=1, le=30)
DaysValues == 1..MaxAge

\* limit: int = Query(10, ge=1, le=100)
LimitValues == 1..MaxJobs

\* One request for each pipeline of the runner; story and educational jobs
\* run the same pipeline behind their text generator.
PipelineRequests ==
    { ContentRequest(t, Topic, None) :
        t \in {"story", "article", "tweet_thread", "book_chapter"} }
    \cup { ContentRequest("podcast", Topic, Some(PodcastOptions("dialogue", None, None))),
           ContentRequest("podcast", Topic, Some(PodcastOptions("topic_based", None, None))) }

NextAll ==
    \/ \E request \in PipelineRequests : GenerateContent(request)
    \/ \E j \in Jobs : RunnerStep(j)
    \/ \E job_id \in Ids : GetStatus(job_id)
    \/ \E job_id \in Ids : Download(job_id)
    \/ \E job_id \in Ids : StreamVideo(job_id)
    \/ \E job_id \in Ids : VideoEmbed(job_id)
    \/ \E job_id \in Ids : VideoInfoRequest(job_id)
    \/ \E job_id \in Ids : PodcastInfo(job_id)
    \/ \E content_type \in Filters, limit \in LimitValues :
          ListVideos(content_type, 1, limit)

\* The whole HTTP surface next to the runners.
SpecAll == Init /\ [][NextAll]_vars

-----------------------------------------------------------------------------
(* Vocabulary of the properties.                                           *)

Created == DOMAIN active_jobs

Terminal == {"completed", "failed"}

Has(rec, key) == key \in DOMAIN rec

\* Positions of the log of job j holding an event of kind ev.
Events(j, ev) == { i \in 1..Len(log[j]) : log[j][i].ev = ev }

\* Positions at which a generator returned an "Error:"-prefixed result.
SentinelReturns(j) == { i \in Events(j, "return") : log[j][i].sentinel }

\* The runner of job j has taken at least one step.
Started(j) == pc[j] \notin {"none", "scheduled"}

\* The dispatch table of the Pipeline Router: content type -> primary output.
PrimaryOutput(content_type) ==
    CASE content_type \in {"story", "educational"} -> <<"content_video.mp4", "video/mp4">>
      [] content_type = "podcast" -> <<"podcast_audio.mp3", "audio/mpeg">>
      [] content_type = "article" -> <<"article.txt", "text/plain">>
      [] content_type = "tweet_thread" -> <<"tweet_thread.json", "application/json">>
      [] content_type = "book_chapter" -> <<"book_chapter.txt", "text/plain">>

ProcessingShape(rec) ==
    /\ rec.status = "processing"
    /\ ~ Has(rec, "completed_at") /\ ~ Has(rec, "error")

CompletedShape(rec) ==
    /\ rec.status = "completed"
    /\ Has(rec, "completed_at") /\ Has(rec, "output_filename") /\ Has(rec, "media_type")
    /\ ~ Has(rec, "error") /\ ~ Has(rec, "failed_at")

FailedShape(rec) ==
    /\ rec.status = "failed"
    /\ Has(rec, "failed_at") /\ Has(rec, "error")
    /\ ~ Has(rec, "completed_at")

\* A podcast request of the given sub-type.
IsPodcast(request, type) ==
    /\ request.content_type = "podcast"
    /\ request.podcast_options # None
    /\ request.podcast_options[1].podcast_type = type

-----------------------------------------------------------------------------
(* The read-only views over a job store the program has built.             *)

\* What a finished run of a job of the given type leaves in its directory.
OutputFiles(content_type) ==
    CASE content_type \in {"story", "educational"} ->
             {"content.txt", "image_0.png", "voice_over.mp3", "background_music.wav",
              "content_video.mp4"}
      [] OTHER -> {PrimaryOutput(content_type)[1]}

\* The requests behind the stored jobs: the two video types, an audio type
\* and a text type.
StoredRequests ==
    { ContentRequest(t, Topic, None) : t \in {"story", "educational", "article"} }
    \cup { ContentRequest("podcast", Topic, Some(PodcastOptions("topic_based", None, None))) }

\* A job as the program leaves it: still processing, failed, completed, and
\* completed with its output directory emptied since (the file system is not
\* the program's alone).
Shapes == {"processing", "failed", "completed", "completed, files removed"}

\* The record of job job_id, created on day t, in the given shape.
StoredRecord(job_id, request, t, shape) ==
    LET new == Update(NewRecord(job_id, request), [created_at |-> isoformat(t)])
        out == PrimaryOutput(request.content_type)
    IN CASE shape = "processing" -> new
         [] shape = "failed" -> HandleException(new, Exc("Exception", << <<"boom">> >>))
         [] OTHER -> IF request.content_type = "podcast"
                     THEN MarkCompleted(PodcastUpdate(new, out[1]))
                     ELSE MarkCompleted(SetOutput(new, out[1], out[2]))

StoredDir(request, shape) ==
    IF shape = "completed" THEN OutputFiles(request.content_type) ELSE {}

\* The stores of n jobs: job ids in insertion order, created on days that do
\* not decrease and are not after today.
Stores(n, today) ==
    { f \in [1..n -> StoredRequests \X Instants \X Shapes] :
        /\ \A k \in 1..n : f[k][2] <= today
        /\ \A k \in 1..n : k > 1 => f[k - 1][2] <= f[k][2] }

InitViews ==
    /\ clock \in Instants
    /\ \E n \in 0..MaxJobs : \E f \in Stores(n, clock) :
          /\ active_jobs = [k \in 1..n |-> StoredRecord(k, f[k][1], f[k][2], f[k][3])]
          /\ dirs = [k \in 1..n |-> StoredDir(f[k][1], f[k][3])]
          /\ tasks = [j \in Jobs |-> IF j <= n THEN f[j][1] ELSE NoRequest]
          /\ pc = [j \in Jobs |-> IF j > n THEN "none"
                                   ELSE IF f[j][3] = "processing" THEN "scheduled"
                                   ELSE "done"]
    /\ log = [j \in Jobs |-> <<>>]
    /\ writes = [j \in Jobs |-> <<>>]
    /\ response = Response("none", UnknownId, 0, <<>>)
    /\ static_videos = {}

\* A day passes.
Tick ==
    /\ clock < 9 + MaxAge
    /\ clock' = clock + 1
    /\ UNCHANGED <<active_jobs, tasks, pc, dirs, log, writes, response, static_videos>>

NextViews ==
    \/ \E job_id \in Ids : Download(job_id)
    \/ \E content_type \in Filters, days \in DaysValues, limit \in LimitValues :
          ListVideos(content_type, days, limit)
    \/ Tick

\* GET /download and GET /videos over every store of at most MaxJobs jobs.
SpecViews == InitViews /\ [][NextViews]_vars

-----------------------------------------------------------------------------
(* Properties.                                                             *)

\* C1: once GET /status has returned completed or failed for a job, every
\* later GET /status of that job returns the same status: no step of any
\* runner or handler takes a job out of a terminal status.
C1_StatusMonotonic ==
    [][\A j \in Created :
          get_job_status(j).body.status \in Terminal
          => get_job_status(j)'.body.status = get_job_status(j).body.status]_vars

\* C1 witness: a poll has returned completed for one job while the runner of
\* another job is still suspended in a generator call.
C1_Witness ==
    /\ response.op = "status" /\ response.code = 200
    /\ response.body.status = "completed"
    /\ \E k \in Created : k # response.job_id /\ Started(k) /\ pc[k] # "done"

\* C2: the step that answers POST /generate leaves the new job in the store
\* with status processing, its id in the response, and its runner not yet
\* started (no generator called); from then on GET /status finds the record,
\* and finds it processing for as long as the runner has not taken a step.
C2_SubmitThenProcessing ==
    /\ [][\A j \in Jobs :
             (pc[j] = "none" /\ (pc'[j] # "none" \/ j \in Created'))
             => /\ j \in Created'
                /\ active_jobs'[j].status = "processing"
                /\ response'.op = "generate" /\ response'.job_id = j
                /\ response'.body.status = "processing"
                /\ pc'[j] = "scheduled"
                /\ log'[j] = <<>>]_vars
    /\ [](\A j \in Jobs :
             pc[j] # "none"
             => /\ get_job_status(j).code = 200
                /\ (~ Started(j)
                    => /\ get_job_status(j).body.status = "processing"
                       /\ log[j] = <<>>))

\* C2 witness: a poll of a job whose runner has not started returned its
\* processing record, after another request had been served in between.
C2_Witness ==
    /\ response.op = "status" /\ response.code = 200
    /\ response.body.status = "processing"
    /\ pc[response.job_id] = "scheduled"
    /\ \E k \in Created : k # response.job_id /\ pc[k] = "done"

\* C3: in every state a handler can observe, each job record has the shape of
\* its status: processing, completed or failed.
C3_RecordShape ==
    \A j \in Created :
        \/ ProcessingShape(active_jobs[j])
        \/ CompletedShape(active_jobs[j])
        \/ FailedShape(active_jobs[j])

\* C3 witness: a completed, a failed record side by side.
C3_Witness ==
    \E j, k \in Created :
        /\ CompletedShape(active_jobs[j])
        /\ FailedShape(active_jobs[k])

\* C4: the output_filename and media_type of a completed job are the primary
\* output the dispatch table gives for its content type.
C4_PrimaryOutput ==
    \A j \in Created :
        active_jobs[j].status = "completed"
        => /\ Has(active_jobs[j], "output_filename")
           /\ Has(active_jobs[j], "media_type")
           /\ <<active_jobs[j].output_filename, active_jobs[j].media_type>>
                = PrimaryOutput(active_jobs[j].content_type)

\* C4 witness: a completed video job and a completed podcast job.
C4_Witness ==
    \E j, k \in Created :
        /\ active_jobs[j].status = "completed"
        /\ active_jobs[j].content_type \in {"story", "educational"}
        /\ active_jobs[k].status = "completed"
        /\ active_jobs[k].content_type = "podcast"

\* C5: the file a completed job names as its output is in that job's own
\* output directory, in the state it completes and in every later state.
C5_OutputFileExists ==
    \A j \in Created :
        active_jobs[j].status = "completed"
        => /\ Has(active_jobs[j], "output_filename")
           /\ active_jobs[j].output_dir = j
           /\ j \in DOMAIN dirs
           /\ active_jobs[j].output_filename \in dirs[j]

\* C5 witness: a job is completed and a job created after it, with a longer
\* pipeline, has run to its end beside it.
C5_Witness ==
    \E j, k \in Created :
        /\ j < k
        /\ active_jobs[j].status = "completed"
        /\ Len(log[j]) < Len(log[k])
        /\ pc[k] = "done"

\* C6: when a text-producing generator has returned an "Error:"-prefixed
\* result, the runner calls no further generator, the job is never completed,
\* and the runner ends with the job failed.
C6_SentinelFailsJob ==
    \A j \in Created :
        \A i \in SentinelReturns(j) :
            /\ \A k \in Events(j, "call") : k < i
            /\ active_jobs[j].status # "completed"
            /\ pc[j] = "done" => active_jobs[j].status = "failed"

\* C7: an error raised by a generator call or by a check of the runner is the
\* last thing in the runner's log (no generator is called after it), does not
\* leave the runner, and leaves the job failed.
C7_ErrorsCaught ==
    \A j \in Jobs :
        /\ pc[j] # "escaped"
        /\ \A i \in Events(j, "raise") :
              /\ i = Len(log[j])
              /\ pc[j] = "done"
              /\ active_jobs[j].status = "failed"

\* C7 witness: the last step of a video pipeline raised, and a check of the
\* runner itself raised in another job.
C7_Witness ==
    \E j, k \in Created :
        /\ Len(log[j]) = 10
        /\ log[j][10].ev = "raise"
        /\ log[k] # <<>>
        /\ log[k][Len(log[k])] = RaiseEv(Exc("ValueError", <<>>))

\* C8: the record of a failed job has a non-empty error and a failed_at.
C8_FailedHasError ==
    \A j \in Created :
        active_jobs[j].status = "failed"
        => /\ Has(active_jobs[j], "error")
           /\ active_jobs[j].error # <<>>
           /\ Has(active_jobs[j], "failed_at")

\* A dialogue podcast request with no dialogues and an empty topic.
DialogueWithoutInput(request) ==
    /\ IsPodcast(request, "dialogue")
    /\ request.podcast_options[1].dialogues \in {None, Some(<<>>)}
    /\ request.topic = <<>>

\* C9: a dialogue podcast with neither dialogues nor topic calls no generator,
\* is never completed, and is failed with a non-empty error as soon as its
\* runner has taken its step.
C9_DialogueNeedsInput ==
    \A j \in Created :
        DialogueWithoutInput(tasks[j])
        => /\ Events(j, "call") = {}
           /\ active_jobs[j].status # "completed"
           /\ Started(j)
              => /\ pc[j] = "done"
                 /\ active_jobs[j].status = "failed"
                 /\ Has(active_jobs[j], "error")
                 /\ active_jobs[j].error # <<>>

\* C9 witness: such a request with an empty dialogue list has failed, and so
\* has one with no dialogue list.
C9_Witness ==
    \E j, k \in Created :
        /\ DialogueWithoutInput(tasks[j]) /\ DialogueWithoutInput(tasks[k])
        /\ tasks[j].podcast_options[1].dialogues = None
        /\ tasks[k].podcast_options[1].dialogues = Some(<<>>)
        /\ active_jobs[j].status = "failed"
        /\ active_jobs[k].status = "failed"

\* C10: a custom_text podcast whose custom_text is absent or empty is never
\* completed.
C10_CustomTextRequired ==
    \A j \in Created :
        (/\ IsPodcast(tasks[j], "custom_text")
         /\ tasks[j].podcast_options[1].custom_text \in {None, Some(<<>>)})
        => active_jobs[j].status # "completed"

\* C11: the record of a completed podcast job carries its public audio_url,
\* and GET /podcast/{id}/info of it returns an audio_url that is not null.
C11_PodcastHasAudioUrl ==
    \A j \in Created :
        (active_jobs[j].status = "completed" /\ active_jobs[j].content_type = "podcast")
        => /\ Has(active_jobs[j], "audio_url")
           /\ get_podcast_info(j).code = 200
           /\ get_podcast_info(j).body.audio_url # None

VideoTypes == {"story", "educational"}

\* C17: stream, embed and info of a job succeed only when the job is completed,
\* of a video-producing type, and its video file exists.
C17_VideoViewsOnlyForVideos ==
    \A j \in Created \cup {UnknownId} :
        \A r \in {stream_video(j), get_video_embed(j), get_video_info(j)} :
            r.code = 200
            => /\ j \in Created
               /\ active_jobs[j].status = "completed"
               /\ active_jobs[j].content_type \in VideoTypes
               /\ Exists(active_jobs[j], "content_video.mp4")

\* The generator calls of a video pipeline, in the order of the dispatch table.
VideoPipeline(content_type) ==
    << IF content_type = "story" THEN "generate_story" ELSE "generate_educational_content",
       "generate_images", "generate_voice_over", "generate_background_music",
       "create_video_async" >>

\* C18: in a story or educational job the generator calls follow the order
\* script, images, voice-over, music, mux; each call but the first comes right
\* after the previous generator returned without error (no raise, no "Error:"
\* result), and a call is followed by nothing but its own end.
C18_VideoPipelineOrder ==
    \A j \in Created :
        tasks[j].content_type \in VideoTypes
        => \A k \in Events(j, "call") :
              LET n == Cardinality({ i \in Events(j, "call") : i <= k })
                  order == VideoPipeline(tasks[j].content_type)
              IN /\ n <= Len(order)
                 /\ log[j][k].gen = order[n]
                 /\ n > 1 => /\ log[j][k - 1].ev = "return"
                             /\ log[j][k - 1].gen = order[n - 1]
                             /\ ~ log[j][k - 1].sentinel
                 /\ k < Len(log[j]) => log[j][k + 1].ev \in {"return", "raise"}

\* The files the runner saves a script or text in.
ScriptFiles == {"content.txt", "article.txt", "book_chapter.txt"}

\* The runner of job j holds its script text: a text generator has returned
\* it, or it came with the request (custom_text).
HasScript(j, k) ==
    \/ \E i \in Events(j, "return") : log[j][i].gen \in TextGenerators /\ i < k
    \/ IsPodcast(tasks[j], "custom_text")

\* C19: when a generator is called after the runner obtained its script text,
\* the text is in a file of the job's output directory.
C19_ScriptPersisted ==
    \A j \in Created :
        \A k \in Events(j, "call") :
            HasScript(j, k) => dirs[j] \cap ScriptFiles # {}

\* Positions of the writes of job j's runner that set status to completed.
CompletedWrites(j) ==
    { i \in 1..Len(writes[j]) :
        Has(writes[j][i], "status") /\ writes[j][i].status = "completed" }

\* C14: no write of output_filename, media_type or completed_at comes after a
\* write that sets the status of the job to completed.
C14_StatusWrittenLast ==
    \A j \in Created :
        \A i \in CompletedWrites(j) :
            \A k \in (i + 1)..Len(writes[j]) :
                DOMAIN writes[j][k]
                  \cap {"output_filename", "media_type", "completed_at"} = {}

\* C15: with runners that keep being scheduled and generator calls that end,
\* every job POST /generate created reaches status completed or failed.
C15_EveryJobEnds ==
    \A j \in Jobs :
        (j \in Created) ~> (j \in Created /\ active_jobs[j].status \in Terminal)

\* C15 witness: two jobs are in flight at once, each suspended in a generator
\* call of a video pipeline.
C15_Witness ==
    \A j \in Jobs :
        /\ j \in Created
        /\ tasks[j].content_type \in VideoTypes
        /\ pc[j] \in {"generate_images", "create_video_async"}

\* C13: once a job is completed its record never changes again, and GET
\* /status and GET /download of it keep returning what they returned, whatever
\* requests and runner steps of other jobs come in between.
C13_CompletedIsFinal ==
    [][\A j \in Created :
          active_jobs[j].status = "completed" =>
              /\ active_jobs'[j] = active_jobs[j]
              /\ get_job_status(j)' = get_job_status(j)
              /\ download_content(j)' = download_content(j)]_vars

\* C13 witness: a completed job has been listed by GET /videos and then
\* downloaded while the runner of another job is in the middle of its pipeline.
C13_Witness ==
    \E j, k \in Created :
        /\ j # k
        /\ active_jobs[j].status = "completed"
        /\ j \in static_videos
        /\ response = download_content(j)
        /\ response.code = 200
        /\ pc[k] \in {"generate_images", "media_voice_over", "podcast_voice_over"}

\* C20: a step of the runner of job j leaves the record and the directory of
\* every other job as they were, and a step in which no runner moves and no
\* job is created (a GET request) leaves every record as it was.
C20_SingleWriter ==
    [][/\ \A j \in Created :
             pc'[j] # pc[j] =>
                 \A k \in Created \ {j} :
                     active_jobs'[k] = active_jobs[k] /\ dirs'[k] = dirs[k]
       /\ pc' = pc => active_jobs' = active_jobs]_vars

\* C20 witness: two runners are past their start with different records, one
\* of them at its end, and the last request was a GET /videos that listed it.
C20_Witness ==
    \E j, k \in Created :
        /\ pc[j] = "done" /\ active_jobs[j].status = "completed"
        /\ pc[k] \in {"generate_images", "generate_dialogue", "podcast_voice_over"}
        /\ response.op = "videos"
        /\ Len(response.body) = 1

\* The status code GET /download/{id} is to answer with.
DownloadCode(id) ==
    IF id \notin Created THEN 404
    ELSE IF active_jobs[id].status # "completed" THEN 400
    ELSE IF active_jobs[id].output_filename \notin dirs[active_jobs[id].output_dir] THEN 404
    ELSE 200

\* C12: GET /download/{id} answers 404 for an unknown id, 400 for a job that
\* is processing or failed, 404 for a completed job whose output file is
\* missing, and the file named by the record only for a completed job whose
\* file exists; a download changes neither the job store nor the directories.
C12_DownloadOutcomes ==
    [][/\ \A id \in Ids :
             LET r == download_content(id) IN
             /\ r.code = DownloadCode(id)
             /\ r.code = 200 =>
                    /\ r.body.path = <<active_jobs[id].output_dir,
                                       active_jobs[id].output_filename>>
                    /\ r.body.media_type = active_jobs[id].media_type
       /\ response'.op = "download" /\ response' # response =>
             active_jobs' = active_jobs /\ dirs' = dirs]_vars

\* C12 witness: the last download was refused with 404 because the file of a
\* completed job is gone, and the store also holds a job that is not completed.
C12_Witness ==
    /\ response.op = "download" /\ response.code = 404
    /\ response.job_id \in Created
    /\ active_jobs[response.job_id].status = "completed"
    /\ \E k \in Created : active_jobs[k].status \in {"processing", "failed"}

\* The day a record says its job was created on.
CreatedOn(j) == fromisoformat(active_jobs[j].created_at)

\* The jobs GET /videos is to list: completed, with a video file, of the
\* type asked for when a type is asked for, created at most `days` days ago.
Eligible(content_type, days) ==
    { j \in Created :
        /\ active_jobs[j].status = "completed"
        /\ "content_video.mp4" \in dirs[active_jobs[j].output_dir]
        /\ (content_type \notin {None, Some("")} =>
                active_jobs[j].content_type = content_type[1])
        /\ clock - CreatedOn(j) <= days }

\* C16: GET /videos lists only eligible jobs, each once and with its own
\* type and creation time, at most `limit` of them, newest first, and leaves
\* out an eligible job only when `limit` jobs at least as new are listed.
C16_ListVideos ==
    \A content_type \in Filters, days \in DaysValues, limit \in LimitValues :
        LET body == list_videos(content_type, days, limit).response.body
            listed == { body[i].job_id : i \in 1..Len(body) }
        IN /\ listed \subseteq Eligible(content_type, days)
           /\ Len(body) <= limit
           /\ Cardinality(listed) = Len(body)
           /\ \A i \in 1..Len(body) :
                  /\ body[i].content_type = active_jobs[body[i].job_id].content_type
                  /\ body[i].created_at = active_jobs[body[i].job_id].created_at
           /\ \A i, k \in 1..Len(body) :
                  i < k => CreatedOn(body[i].job_id) >= CreatedOn(body[k].job_id)
           /\ \A j \in Eligible(content_type, days) \ listed :
                  /\ Len(body) = limit
                  /\ \A l \in listed : CreatedOn(l) >= CreatedOn(j)

\* C16 witness: two video jobs created on different days are both eligible,
\* and the last GET /videos, with limit 1, listed the newer and left out the
\* older.
C16_Witness ==
    /\ Cardinality(Eligible(None, MaxAge)) = 2
    /\ CreatedOn(1) < CreatedOn(2)
    /\ response.op = "videos"
    /\ response.body = <<VideoInfo(2)>>
    /\ static_videos = {1, 2}

\* The writes of the runner of job j that set output_filename or media_type.
OutputFieldWrites(j) ==
    { i \in 1..Len(writes[j]) :
        DOMAIN writes[j][i] \cap {"output_filename", "media_type"} # {} }

\* C21: a failed job's record has neither output_filename nor media_type,
\* wherever its pipeline failed; the runner writes these two fields only in
\* the stretch of code that ends with the job marked completed, so a record
\* that has either of them is completed and no failure write follows them.
C21_FailedHasNoOutput ==
    \A j \in Created :
        /\ active_jobs[j].status = "failed" =>
               ~ Has(active_jobs[j], "output_filename")
               /\ ~ Has(active_jobs[j], "media_type")
        /\ Has(active_jobs[j], "output_filename") \/ Has(active_jobs[j], "media_type") =>
               active_jobs[j].status = "completed"
        /\ \A i \in OutputFieldWrites(j) :
               \A k \in (i + 1)..Len(writes[j]) :
                   Has(writes[j][k], "status") => writes[j][k].status = "completed"

\* C21 witness: one job failed at the last step of the video pipeline, after
\* the script, the images, the voice and the music were made, and another
\* failed when its output file could not be written.
C21_Witness ==
    \E j, k \in Created :
        /\ active_jobs[j].status = "failed"
        /\ \E i \in Events(j, "return") : log[j][i].gen = "generate_background_music"
        /\ active_jobs[k].status = "failed"
        /\ \E i \in Events(k, "raise") : log[k][i].gen = "OSError"

=============================================================================
